---- MODULE Spec2Model ----
(***************************************************************************)
(* Chat-history memory manager: the rolling in-memory window of            *)
(* ChatHistoryManager, its persistence in the chat_history and summary     *)
(* tables, the pair-count gated summary and the model-driven compaction.   *)
(* Every handler is one atomic action (the program is single-threaded and  *)
(* synchronous); the language model and the database are environments     *)
(* whose outcomes are drawn nondeterministically.  One manager is live at  *)
(* a time, as in the pages, which keep it in the session state and         *)
(* construct a new one over the same database.                             *)
(***************************************************************************)
EXTENDS Integers, Sequences, FiniteSets, TLC

\* ---------------------------------------------------------------- bounds
MaxK == 2            \* max_history_pairs ranges over 0..MaxK
NumMsgs == 2         \* user messages are the texts 1..NumMsgs
NumAnswers == 1      \* assistant responses are the texts 1..NumAnswers
MaxAdds == 3         \* add_to_history calls in one run
MaxSummaries == 2    \* rows of the summary table in one run
MaxItems == 1        \* elements of a JSON list returned by the model
MaxTokens == 5       \* max_tokens of the configuration file
MaxTime == 1         \* CURRENT_TIMESTAMP ranges over 0..MaxTime (seconds)
MaxRows == 4         \* rows of chat_history that a search runs over
MaxTermLen == 2      \* characters of a search term
MaxCharacters == 35  \* max_characters of the SearchManager
MaxMemories == 2     \* memories that add_memory calls store, and the
                     \* ids that get_memory and update_memory are given
MaxStore == 3        \* memories in the collection
MaxAccess == 1       \* access_count of a memory
MaxInsights == 2     \* elements of a JSON list returned by the reflection
MaxResults == 2      \* limit of search_memories
MaxTurns == 5        \* turns of a session driven by the page
MaxIssued == 3       \* session tokens generated in one run
MaxClock == 30       \* hours that the clock runs

\* ------------------------------------------------------------- constants
NoUser == 0          \* user_id None (UserManager.get_user_id found no user)
Absent == 0          \* a key that a dict does not have
SummaryContent == 3  \* the text the model writes for a summarized turn
SearchLimit == 3     \* LIMIT 3 of search_chat_history
NoToken == 0          \* session_token NULL / None
NoExpiry == 0         \* session_expires NULL
NoActivity == 0 - 1   \* last_activity None
RefreshAfter == 12    \* 43200 seconds, in hours
SessionHours == 24    \* timedelta(hours=24)

SessionIds == {"s1", "s2"}
UserIds == {NoUser, 1}
Ks == 0..MaxK
Msgs == 1..NumMsgs
Answers == 1..NumAnswers

Min(a, b) == IF a < b THEN a ELSE b
Max(a, b) == IF a > b THEN a ELSE b

\* --------------------------------------------------------- Python slices
\* s[i:] for a list s and an int i (a negative i counts from the end;
\* -0 is 0, so s[-0:] is the whole list)
PySliceFrom(s, i) ==
    LET start == IF i < 0 THEN Max(Len(s) + i, 0) ELSE Min(i, Len(s))
    IN  SubSeq(s, start + 1, Len(s))

\* s[:j]  (s[:-0] is s[:0], the empty list)
PySliceTo(s, j) ==
    LET stop == IF j < 0 THEN Max(Len(s) + j, 0) ELSE Min(j, Len(s))
    IN  SubSeq(s, 1, stop)

Reverse(s) == [i \in 1..Len(s) |-> s[Len(s) + 1 - i]]

\* ------------------------------------------------------- history entries
\* an entry of chat_history is a dict; a turn has one key, a summarized
\* pair written by the model has both
UserTurn(c) == [user |-> c, assistant |-> Absent]
AssistantTurn(c) == [user |-> Absent, assistant |-> c]

\* ------------------------------------------------------- model responses
\* what generate_content can do: raise, or return a response whose text is
\* None, is not JSON, is a JSON scalar, a JSON object or a JSON list.
\* A JSON element is a non-object or an object with any subset of the keys.
JsonElems ==
    [isdict : {TRUE}, user : {Absent, SummaryContent},
                      assistant : {Absent, SummaryContent}]
    \cup {[isdict |-> FALSE, user |-> Absent, assistant |-> Absent]}
JsonObjects == {e \in JsonElems : e.isdict}
JsonLists == UNION {[1..n -> JsonElems] : n \in 0..MaxItems}
NoResp == [t |-> "na", v |-> <<>>]
CompactResponses ==
    {[t |-> x, v |-> <<>>] : x \in {"raise", "none", "notjson", "scalar"}}
    \cup {[t |-> "dict", v |-> <<o>>] : o \in JsonObjects}
    \cup {[t |-> "list", v |-> l] : l \in JsonLists}
\* the same for the prose summary: raise, None, "" or a text
SummaryResponses ==
    {[t |-> x, v |-> <<>>] : x \in {"raise", "none", "empty"}}
    \cup {[t |-> "text", v |-> <<SummaryContent>>]}

VARIABLES
    user_id,                  \* self.user_id
    session_id,               \* self.session_id
    max_tokens,               \* self.max_tokens
    chat_history,             \* self.chat_history, a list of dicts
    pairs_since_last_summary, \* self.pairs_since_last_summary
    chat_rows,                \* table chat_history, in rowid order
    summary_rows,             \* table summary, in rowid order
    last,                     \* the call that was made last, and its outcome
    adds,                     \* history: add_to_history calls in this run
    store,                    \* AgenticMemorySystem.collection, in order of
                              \* insertion; a memory's id is its position
    reflection_model,         \* self.reflection_model is set (not None)
    sessions,                 \* table user_info: session_token and
                              \* session_expires of every user
    issued,                   \* the tokens secrets.token_urlsafe gave so far
    now,                      \* datetime.now(), in hours
    session_state,            \* st.session_state of the page
    revoked                   \* history: the tokens that clear_session and
                              \* refresh_session replaced

vars == <<user_id, session_id, max_tokens, chat_history,
          pairs_since_last_summary, chat_rows, summary_rows, last,
          adds, store, reflection_model, sessions, issued, now,
          session_state, revoked>>

config == <<user_id, session_id, max_tokens>>

\* the state of the memory plugin, which the chat managers never touch
memory == <<store, reflection_model>>

\* the login sessions, which the chat managers and the memory plugin never
\* touch
auth == <<sessions, issued, now, session_state, revoked>>

\* user_info with no session stored, and the st.session_state that
\* _init_auth_session_state leaves
AuthUsers == {1, 2}
NoSession == [token |-> NoToken, expires |-> NoExpiry]
NoSessionState ==
    [session_token |-> NoToken, last_activity |-> NoActivity,
     authenticated |-> FALSE, user_info |-> FALSE]
AuthStart ==
    /\ sessions = [u \in AuthUsers |-> NoSession]
    /\ issued = 0
    /\ now = 0
    /\ session_state = NoSessionState
    /\ revoked = {}

\* op, k, pair: the call and its arguments; db: "insert" when the INSERT
\* of the call was made to fail; raised: an exception left it; calls: the calls of the
\* model it made; compact: it invoked summarize_chat_history; did: the
\* writes it made; failed: the model gave update_chat_summary no text, or
\* (for add_to_history) that happened in the call before, with the same k;
\* result: what it returned; resp: what the model gave
\* summarize_chat_history ("na" without a call, "empty" for the JSON list [])
NoCall == [op |-> "init", k |-> 0, pair |-> <<>>, db |-> "ok", raised |-> FALSE, calls |-> 0,
           compact |-> FALSE, did |-> {}, failed |-> FALSE, result |-> 0,
           resp |-> "na"]

\* ---------------------------------------------------------- Utils (model)
RECURSIVE SumTokens(_)
SumTokens(h) ==
    IF h = <<>> THEN 0
    ELSE 1 + Head(h).user + Head(h).assistant + SumTokens(Tail(h))

\* Utils.count_number_of_tokens(str(chat_history)): the brackets, and for
\* every entry its punctuation and the tokens of its texts (text c has c
\* tokens, an absent key none)
CountTokens(h) == 1 + SumTokens(h)

\* ------------------------------------------------------ the two tables
ChatRow(uid, sid, q, a, ts) ==
    [user_id |-> uid, session_id |-> sid, question |-> q, answer |-> a,
     timestamp |-> ts]
SummaryRow(uid, sid, text, ts) ==
    [user_id |-> uid, session_id |-> sid, summary_text |-> text,
     timestamp |-> ts]

\* CURRENT_TIMESTAMP has a resolution of one second: an INSERT gets the
\* timestamp of the newest row, or a later one
RECURSIVE MaxStamp(_)
MaxStamp(t) ==
    IF t = <<>> THEN 0 ELSE Max(Head(t).timestamp, MaxStamp(Tail(t)))
Stamps ==
    IF chat_rows = <<>> /\ summary_rows = <<>> THEN {0}
    ELSE LET newest == Max(MaxStamp(chat_rows), MaxStamp(summary_rows))
         IN  {newest} \cup (IF newest < MaxTime THEN {newest + 1} ELSE {})

\* the orders in which "ORDER BY timestamp DESC" may deliver the rows idx
\* of table t: SQL leaves the order of rows of equal timestamp open
DescOrders(t, idx) ==
    {f \in [1..Cardinality(idx) -> idx] :
        /\ \A i, j \in DOMAIN f : i # j => f[i] # f[j]
        /\ \A i, j \in DOMAIN f :
              i < j => t[f[i]].timestamp >= t[f[j]].timestamp}

\* faulty SessionRows: the SELECT has no WHERE session_id = ?
MutantSessionRowsAll(t, sid) == DOMAIN t

\* WHERE session_id = ?
SessionRows(t, sid) == {i \in DOMAIN t : t[i].session_id = sid}

\* LIMIT of get_latest_chat_pairs
FetchLimit(num_pairs) == num_pairs * 2

\* get_latest_chat_pairs: every list the SELECT and the reversal can give
LatestChatPairs(sid, num_pairs) ==
    LET idx == SessionRows(chat_rows, sid)
        lim == Min(FetchLimit(num_pairs), Cardinality(idx))
    IN  {Reverse([i \in 1..lim |->
                    <<chat_rows[f[i]].question, chat_rows[f[i]].answer>>]) :
            f \in DescOrders(chat_rows, idx)}

\* get_latest_summary: <<text>> for a summary, <<>> for None
LatestSummary(sid) ==
    LET idx == SessionRows(summary_rows, sid)
    IN  IF idx = {} THEN {<<>>}
        ELSE {<<summary_rows[f[1]].summary_text>> :
                f \in DescOrders(summary_rows, idx)}

\* ------------------------------------------- ChatHistoryManager, helpers
\* (a definition named Mutant... is a faulty variant of the definition it
\* names, which follows it, used to show that a property depends on that
\* definition)

\* faulty Truncate: the window is never cut
MutantTruncateNever(h, k) == h

\* faulty Truncate: keeps one entry more than 2k, [-(k*2+1):] for [-k*2:]
MutantTruncateKeepsExtra(h, k) ==
    IF Len(h) > k * 2 THEN PySliceFrom(h, -(k * 2 + 1)) ELSE h

\* faulty Truncate: keeps the oldest 2k entries, [:k*2] for [-k*2:]
MutantTruncateKeepsOldest(h, k) ==
    IF Len(h) > k * 2 THEN PySliceTo(h, k * 2) ELSE h

\* add_to_history, the truncation of the window to 2 * max_history_pairs
Truncate(h, k) ==
    IF Len(h) > k * 2 THEN PySliceFrom(h, -(k * 2)) ELSE h

\* faulty ValidPairs: an empty list does not pass the format check
MutantValidPairsNonEmpty(items) ==
    /\ items # <<>>
    /\ \A i \in DOMAIN items :
        items[i].isdict /\ items[i].user # Absent /\ items[i].assistant # Absent

\* faulty ValidPairs: the format check forgets the 'user' key
MutantValidPairsAssistantOnly(items) ==
    \A i \in DOMAIN items : items[i].isdict /\ items[i].assistant # Absent

\* faulty ValidPairs: the format check forgets the 'assistant' key
MutantValidPairsUserOnly(items) ==
    \A i \in DOMAIN items : items[i].isdict /\ items[i].user # Absent

\* "if not self.user_id" of save_to_db and save_summary_to_db
HasUser(uid) == uid # NoUser

\* summarize_chat_history, the format check of the parsed response: a
\* list whose elements are all dicts with both keys
ValidPairs(items) ==
    \A i \in DOMAIN items :
        items[i].isdict /\ items[i].user # Absent /\ items[i].assistant # Absent

\* summarize_chat_history, the try block: TRUE when self.chat_history is
\* assigned (json.loads succeeded, a dict was wrapped into a list, the
\* format check passed); every other response raises inside the try
Accepted(resp) ==
    /\ resp.t \in {"dict", "list"}
    /\ ValidPairs(resp.v)

\* the dicts of the response as stored in self.chat_history
AsEntries(items) ==
    [i \in DOMAIN items |->
        [user |-> items[i].user, assistant |-> items[i].assistant]]

\* faulty Summarize: keeps the oldest 2k entries behind the summary
MutantSummarizeKeepsOldest(h, k, resp) ==
    LET pairs_to_summarize == PySliceTo(h, -(k * 2))
    IN  IF Len(pairs_to_summarize) = 0
        THEN [hist |-> h, called |-> FALSE, replaced |-> FALSE,
              raised |-> FALSE]
        ELSE IF Accepted(resp)
        THEN [hist |-> AsEntries(resp.v) \o PySliceTo(h, k * 2),
              called |-> TRUE, replaced |-> TRUE, raised |-> FALSE]
        ELSE [hist |-> h, called |-> TRUE, replaced |-> FALSE,
              raised |-> FALSE]

\* summarize_chat_history: the new chat_history, whether the model was
\* called, whether chat_history was assigned, and whether an exception
\* leaves the method ("except Exception" catches all that the try raises)
Summarize(h, k, resp) ==
    LET pairs_to_keep == k
        pairs_to_summarize == PySliceTo(h, -(pairs_to_keep * 2))
    IN  IF Len(pairs_to_summarize) = 0
        THEN [hist |-> h, called |-> FALSE, replaced |-> FALSE,
              raised |-> FALSE]
        ELSE IF Accepted(resp)
        THEN [hist |-> AsEntries(resp.v) \o PySliceFrom(h, -(pairs_to_keep * 2)),
              called |-> TRUE, replaced |-> TRUE, raised |-> FALSE]
        ELSE [hist |-> h, called |-> TRUE, replaced |-> FALSE,
              raised |-> FALSE]

\* faulty SummaryNotDue: the guard is off by one
MutantSummaryNotDueOffByOne(pairs, k) == pairs < k - 1

\* update_chat_summary, the first guard
SummaryNotDue(pairs, k) == pairs < k

\* faulty Insufficient: "<" for "<=", a session of exactly k pairs passes
MutantInsufficientNonStrict(chat_data, k) == Len(chat_data) < k

\* update_chat_summary, the second guard ("Insufficient chat data")
Insufficient(chat_data, k) == Len(chat_data) <= k

\* generate_the_new_summary: the text returned (Absent for None and for ""),
\* and whether the model was called
GenerateTheNewSummary(chat_data, resp) ==
    IF chat_data = <<>> THEN [text |-> Absent, called |-> FALSE]
    ELSE IF resp.t = "text" THEN [text |-> resp.v[1], called |-> TRUE]
    ELSE [text |-> Absent, called |-> TRUE]

\* faulty SummaryWrite: the counter is reset whatever the text is
MutantSummaryWriteAlwaysResets(uid, text, db) ==
    IF text = Absent
    THEN [save |-> FALSE, reset |-> TRUE, raised |-> FALSE]
    ELSE IF ~HasUser(uid)
    THEN [save |-> FALSE, reset |-> TRUE, raised |-> FALSE]
    ELSE IF db = "insert"
    THEN [save |-> FALSE, reset |-> FALSE, raised |-> TRUE]
    ELSE [save |-> TRUE, reset |-> TRUE, raised |-> FALSE]

\* update_chat_summary after the two guards: what it does with summary_text.
\* db = "insert" makes execute_query raise in the INSERT.
\* save: a row is inserted; reset: the counter is set to 0; raised: the
\* exception of execute_query leaves update_chat_summary
SummaryWrite(uid, text, db) ==
    IF text = Absent
    THEN [save |-> FALSE, reset |-> FALSE, raised |-> FALSE]
    ELSE IF ~HasUser(uid)
    THEN [save |-> FALSE, reset |-> TRUE, raised |-> FALSE]
    ELSE IF db = "insert"
    THEN [save |-> FALSE, reset |-> FALSE, raised |-> TRUE]
    ELSE [save |-> TRUE, reset |-> TRUE, raised |-> FALSE]

\* faulty PairWrite: save_to_db without the check of user_id
MutantPairWriteNoUserCheck(uid, db) ==
    IF db = "insert" THEN [insert |-> FALSE, raised |-> TRUE]
    ELSE [insert |-> TRUE, raised |-> FALSE]

\* save_to_db as called by add_to_history: insert: a row is inserted;
\* raised: the exception of execute_query leaves add_to_history
PairWrite(uid, db) ==
    IF ~HasUser(uid) THEN [insert |-> FALSE, raised |-> FALSE]
    ELSE IF db = "insert" THEN [insert |-> FALSE, raised |-> TRUE]
    ELSE [insert |-> TRUE, raised |-> FALSE]

\* add_to_history, "if chat_history_token_count > self.max_tokens"
OverBudget(h, budget) == CountTokens(h) > budget

Call(op, k, db) == [NoCall EXCEPT !.op = op, !.k = k, !.db = db]

\* ------------------------------------------------------------------ Init
\* a manager as __init__ leaves it (chat_history empty, counter 0), for
\* any user (UserManager may have found none), over fresh tables
Init ==
    /\ user_id \in UserIds
    /\ session_id = "s1"
    /\ max_tokens = MaxTokens
    /\ chat_history = <<>>
    /\ pairs_since_last_summary = 0
    /\ chat_rows = <<>>
    /\ summary_rows = <<>>
    /\ last = NoCall
    /\ adds = 0
    /\ store = <<>>
    /\ reflection_model = FALSE
    /\ AuthStart

\* --------------------------------------------------------------- actions
\* ChatHistoryManager(sql_manager, user_id, session_id, ..., max_tokens):
\* the page constructs a new manager over the same database, for the
\* session of the old one or for another
Construct(uid, sid) ==
    /\ user_id' = uid
    /\ session_id' = sid
    /\ chat_history' = <<>>
    /\ pairs_since_last_summary' = 0
    /\ last' = Call("construct", 0, "ok")
    /\ UNCHANGED <<max_tokens, chat_rows, summary_rows, adds, memory, auth>>

\* add_to_history(user_message, assistant_response, max_history_pairs);
\* db = "insert" makes the INSERT of save_to_db raise
AddToHistory(um, ar, k, db) ==
    LET h1 == chat_history \o <<UserTurn(um), AssistantTurn(ar)>>
        h2 == Truncate(h1, k)
        w == PairWrite(user_id, db)
        over == OverBudget(h2, max_tokens)
        asked == ~w.raised /\ over /\ Summarize(h2, k, NoResp).called
    IN  /\ db = "insert" => HasUser(user_id)
        /\ \E resp \in (IF asked THEN CompactResponses ELSE {NoResp}),
              ts \in (IF w.insert THEN Stamps ELSE {0}) :
            LET s == Summarize(h2, k, resp)
            IN  IF w.raised
                THEN /\ chat_history' = h2
                     /\ last' = [Call("add", k, db) EXCEPT
                             !.pair = <<um, ar>>, !.raised = TRUE,
                             !.failed = /\ last.op = "update"
                                        /\ last.failed
                                        /\ last.k = k]
                     /\ UNCHANGED <<pairs_since_last_summary, chat_rows>>
                ELSE /\ chat_history' = IF over THEN s.hist ELSE h2
                     /\ pairs_since_last_summary' = pairs_since_last_summary + 1
                     /\ chat_rows' =
                          IF w.insert
                          THEN Append(chat_rows,
                                      ChatRow(user_id, session_id, um, ar, ts))
                          ELSE chat_rows
                     /\ last' = [Call("add", k, db) EXCEPT
                             !.pair = <<um, ar>>,
                             !.compact = over,
                             !.calls = IF over /\ s.called THEN 1 ELSE 0,
                             !.did = (IF w.insert THEN {"insert"} ELSE {})
                                     \cup (IF over /\ s.replaced
                                           THEN {"replace"} ELSE {}),
                             !.failed = /\ last.op = "update"
                                        /\ last.failed
                                        /\ last.k = k]
        /\ adds' = adds + 1
        /\ UNCHANGED <<config, summary_rows, memory, auth>>

\* summarize_chat_history(max_history_pairs), called directly
SummarizeChatHistory(k) ==
    LET asked == Summarize(chat_history, k, NoResp).called
    IN  /\ \E resp \in (IF asked THEN CompactResponses ELSE {NoResp}) :
            LET s == Summarize(chat_history, k, resp)
            IN  /\ chat_history' = s.hist
                /\ last' = [Call("summarize", k, "ok") EXCEPT
                                !.raised = s.raised,
                                !.calls = IF s.called THEN 1 ELSE 0,
                                !.did = IF s.replaced THEN {"replace"} ELSE {},
                                !.resp = IF resp = [t |-> "list", v |-> <<>>]
                                         THEN "empty" ELSE resp.t]
        /\ UNCHANGED <<config, pairs_since_last_summary, chat_rows,
                       summary_rows, adds, memory, auth>>

\* update_chat_summary(max_history_pairs); db = "insert" makes the INSERT
\* of save_summary_to_db raise
UpdateChatSummary(k, db) ==
    \E chat_data \in LatestChatPairs(session_id, k) :
    LET due == ~SummaryNotDue(pairs_since_last_summary, k)
        ran == due /\ ~Insufficient(chat_data, k)
        asked == ran /\ GenerateTheNewSummary(chat_data, NoResp).called
    IN  /\ \E resp \in (IF asked THEN SummaryResponses ELSE {NoResp}) :
            LET g == GenerateTheNewSummary(chat_data, resp)
                w == SummaryWrite(user_id, g.text, db)
                save == ran /\ w.save
            IN  /\ db = "insert" => (ran /\ g.text # Absent /\ HasUser(user_id))
                /\ save => Len(summary_rows) < MaxSummaries
                /\ \E ts \in (IF save THEN Stamps ELSE {0}) :
                     summary_rows' =
                       IF save
                       THEN Append(summary_rows,
                                   SummaryRow(user_id, session_id, g.text, ts))
                       ELSE summary_rows
                /\ pairs_since_last_summary' =
                     IF ran /\ w.reset THEN 0 ELSE pairs_since_last_summary
                /\ last' = [Call("update", k, db) EXCEPT
                        !.raised = ran /\ w.raised,
                        !.calls = IF asked THEN 1 ELSE 0,
                        !.did = (IF save THEN {"save"} ELSE {})
                                \cup (IF ran /\ w.reset THEN {"reset"} ELSE {}),
                        !.failed = asked /\ g.text = Absent]
        /\ UNCHANGED <<config, chat_history, chat_rows, adds, memory, auth>>

\* get_latest_chat_pairs(num_pairs); last.result is the number of pairs
\* it returned
GetLatestChatPairs(num_pairs) ==
    /\ \E res \in LatestChatPairs(session_id, num_pairs) :
         last' = [Call("get_pairs", num_pairs, "ok") EXCEPT !.result = Len(res)]
    /\ UNCHANGED <<config, chat_history, pairs_since_last_summary, chat_rows,
                   summary_rows, adds, memory, auth>>

\* get_latest_summary(); last.result is 0 for None, 1 for a text
GetLatestSummary ==
    /\ \E res \in LatestSummary(session_id) :
         last' = [Call("get_summary", 0, "ok") EXCEPT !.result = Len(res)]
    /\ UNCHANGED <<config, chat_history, pairs_since_last_summary, chat_rows,
                   summary_rows, adds, memory, auth>>

Next ==
    \/ \E uid \in UserIds, sid \in SessionIds : Construct(uid, sid)
    \/ \E um \in Msgs, ar \in Answers, k \in Ks, db \in {"ok", "insert"} :
            adds < MaxAdds /\ AddToHistory(um, ar, k, db)
    \/ \E k \in Ks : SummarizeChatHistory(k)
    \/ \E k \in Ks, db \in {"ok", "insert"} : UpdateChatSummary(k, db)
    \/ \E n \in Ks : GetLatestChatPairs(n)
    \/ GetLatestSummary

Spec == Init /\ [][Next]_vars

\* ------------------------------------------------- the page, turn by turn
\* One session as the chat page drives it (agentic_ui_chat.py): a manager
\* with a user_id on fresh tables, and for each turn add_to_history
\* followed by update_chat_summary, with the same max_history_pairs >= 1
\* all along, working persistence, and a model that returns a text.
CadenceInit == Init /\ HasUser(user_id)

CadenceAdd ==
    /\ last.op \in {"init", "update"}
    /\ adds < MaxTurns
    /\ \E um \in Msgs, ar \in Answers, k \in 1..MaxK :
        /\ last.op = "update" => k = last.k
        /\ AddToHistory(um, ar, k, "ok")

CadenceUpdate ==
    /\ last.op = "add"
    /\ UpdateChatSummary(last.k, "ok")
    /\ ~last'.failed

CadenceNext == CadenceAdd \/ CadenceUpdate

CadenceSpec == CadenceInit /\ [][CadenceNext]_vars

\* ========================================================= SearchManager
\* Texts are sequences of characters here.  "A" is an ASCII capital, "É" a
\* capital outside ASCII (its small letter is "é"), "_" and "%" are the
\* wildcards of LIKE.
TermAlphabet == {"A", "b", "_", "É"}
SearchTerms == UNION {[1..n -> TermAlphabet] : n \in 0..MaxTermLen}
\* the (question, answer) pairs of the rows: one row of the first
\* serializes to MaxCharacters characters, one of the second to one more
RowTexts == {<<<<"É">>, <<"b">>>>, <<<<"A", "b">>, <<"É">>>>}

\* str.lower() of Python, by character: Unicode
PyLower(c) == IF c = "A" THEN "a" ELSE IF c = "É" THEN "é" ELSE c
\* LOWER() of SQLite, by character: ASCII only
SqlLower(c) == IF c = "A" THEN "a" ELSE c
\* str.lower() of a text, and LOWER() of a text
PyLowerText(t) == [i \in DOMAIN t |-> PyLower(t[i])]
SqlLowerText(t) == [i \in DOMAIN t |-> SqlLower(t[i])]

\* the comparison of two characters by LIKE: it ignores case for ASCII
\* letters only
LikeSameChar(c, d) == SqlLower(c) = SqlLower(d)

\* text LIKE pattern of SQLite: "%" stands for any run of characters, "_"
\* for any one character
RECURSIVE Like(_, _)
Like(pattern, text) ==
    IF pattern = <<>> THEN text = <<>>
    ELSE IF Head(pattern) = "%"
    THEN Like(Tail(pattern), text)
         \/ (text # <<>> /\ Like(pattern, Tail(text)))
    ELSE IF text = <<>> THEN FALSE
    ELSE IF Head(pattern) = "_" THEN Like(Tail(pattern), Tail(text))
    ELSE LikeSameChar(Head(pattern), Head(text))
         /\ Like(Tail(pattern), Tail(text))

\* WHERE LOWER(question) LIKE ? OR LOWER(answer) LIKE ?, with the
\* parameters f"%{search_term.lower()}%"
SearchMatches(row, search_term) ==
    LET param == <<"%">> \o PyLowerText(search_term) \o <<"%">>
    IN  \/ Like(param, SqlLowerText(row.question))
        \/ Like(param, SqlLowerText(row.answer))

\* the orders in which "ORDER BY timestamp" may deliver the rows idx
AscOrders(t, idx) ==
    {f \in [1..Cardinality(idx) -> idx] :
        /\ \A i, j \in DOMAIN f : i # j => f[i] # f[j]
        /\ \A i, j \in DOMAIN f :
              i < j => t[f[i]].timestamp <= t[f[j]].timestamp}

\* the SELECT of search_chat_history: every list of (question, answer,
\* timestamp) it can give
SearchRows(search_term) ==
    LET idx == {i \in DOMAIN chat_rows : SearchMatches(chat_rows[i], search_term)}
        lim == Min(SearchLimit, Cardinality(idx))
    IN  {[i \in 1..lim |-> <<chat_rows[f[i]].question, chat_rows[f[i]].answer,
                              chat_rows[f[i]].timestamp>>] :
            f \in AscOrders(chat_rows, idx)}

\* count_number_of_characters(str(results)): "[" and "]", for every tuple
\* its parentheses, the three quoted fields (a timestamp has 19
\* characters) and two ", ", and ", " between two tuples
RECURSIVE SumChars(_)
SumChars(results) ==
    IF results = <<>> THEN 0
    ELSE Len(Head(results)[1]) + Len(Head(results)[2]) + 31
         + SumChars(Tail(results))
NumCharacters(results) ==
    2 + SumChars(results) + 2 * (Len(results) - 1)

\* what generate_content can do in summarize_search_result: raise, or
\* return a response whose text is None, "" or a text of some length; the
\* prompt asks for a summary "within {self.max_characters} characters",
\* the model may write a shorter or a longer one
TextLengths == {1, MaxCharacters, MaxCharacters + 1}
SearchResponses ==
    {[t |-> x, v |-> <<>>] : x \in {"raise", "none", "empty"}}
    \cup {[t |-> "text", v |-> <<n>>] : n \in TextLengths}

Successful == "Function call successful."
Failed == "Function call failed."

\* faulty TooLong: a result of exactly max_characters is summarized
MutantTooLongAtBound(num_characters) == num_characters >= MaxCharacters

\* "if num_characters > self.max_characters"
TooLong(num_characters) == num_characters > MaxCharacters

\* faulty Search: the call of summarize_search_result stands outside the
\* try, its exception leaves search_chat_history
MutantSearchModelUncaught(results, db, resp) ==
    LET out(status, kind, rows, calls, chars) ==
            [status |-> status, kind |-> kind, rows |-> rows,
             calls |-> calls, chars |-> chars, model |-> resp.t,
             len |-> IF kind = "text" /\ resp.t = "text" THEN resp.v[1] ELSE 0,
             raised |-> calls = 1 /\ resp.t = "raise"]
    IN  IF db = "select" THEN out(Failed, "message", <<>>, 0, 0)
        ELSE IF results = <<>> THEN out(Failed, "message", <<>>, 0, 0)
        ELSE IF TooLong(NumCharacters(results))
        THEN CASE resp.t = "raise" ->
                    out("", "", <<>>, 1, NumCharacters(results))
               [] resp.t = "none" ->
                    out(Successful, "none", <<>>, 1, NumCharacters(results))
               [] resp.t = "empty" ->
                    out(Successful, "empty", <<>>, 1, NumCharacters(results))
               [] OTHER ->
                    out(Successful, "text", <<>>, 1, NumCharacters(results))
        ELSE out(Successful, "rows", results, 0, NumCharacters(results))

\* search_chat_history for the rows that the SELECT gave: what it returns
\* (status; kind of the second element: "message", "rows", or for
\* response.text "text", "empty" and "none"; the rows), the calls of the
\* model, num_characters (0 when it was not computed), what the model did,
\* the length of the text it returns as the summary (0 when there is none),
\* and whether an exception leaves the method ("except Exception" catches
\* what the try raises).  db = "select" makes execute_query raise, resp
\* is what generate_content does.
Search(results, db, resp) ==
    LET out(status, kind, rows, calls, chars) ==
            [status |-> status, kind |-> kind, rows |-> rows,
             calls |-> calls, chars |-> chars, model |-> resp.t,
             len |-> IF kind = "text" /\ resp.t = "text" THEN resp.v[1] ELSE 0,
             raised |-> FALSE]
    IN  IF db = "select" THEN out(Failed, "message", <<>>, 0, 0)
        ELSE IF results = <<>> THEN out(Failed, "message", <<>>, 0, 0)
        ELSE IF TooLong(NumCharacters(results))
        THEN CASE resp.t = "raise" ->
                    out(Failed, "message", <<>>, 1, NumCharacters(results))
               [] resp.t = "none" ->
                    out(Successful, "none", <<>>, 1, NumCharacters(results))
               [] resp.t = "empty" ->
                    out(Successful, "empty", <<>>, 1, NumCharacters(results))
               [] OTHER ->
                    out(Successful, "text", <<>>, 1, NumCharacters(results))
        ELSE out(Successful, "rows", results, 0, NumCharacters(results))

\* the tables that the searches run over: rows of one user in the order
\* of their insertion, with the timestamps of that order
SearchTables ==
    LET Rows == {ChatRow(1, "s1", qa[1], qa[2], ts) :
                    qa \in RowTexts, ts \in 0..MaxTime}
    IN  {t \in UNION {[1..n -> Rows] : n \in 0..MaxRows} :
            \A i, j \in DOMAIN t : i < j => t[i].timestamp <= t[j].timestamp}

SearchInit ==
    /\ user_id = 1
    /\ session_id = "s1"
    /\ max_tokens = MaxTokens
    /\ chat_history = <<>>
    /\ pairs_since_last_summary = 0
    /\ chat_rows \in SearchTables
    /\ summary_rows = <<>>
    /\ last = NoCall
    /\ adds = 0
    /\ store = <<>>
    /\ reflection_model = FALSE
    /\ AuthStart

\* search_chat_history(search_term); last.pair is the term, last.result
\* what the call returned
SearchChatHistory(search_term, db) ==
    /\ \E results \in SearchRows(search_term) :
        LET asked == Search(results, db, NoResp).calls = 1
        IN  \E resp \in (IF asked THEN SearchResponses ELSE {NoResp}) :
                LET r == Search(results, db, resp)
                IN  last' = [Call("search", 0, db) EXCEPT
                                !.pair = search_term,
                                !.raised = r.raised,
                                !.calls = r.calls,
                                !.result = r]
    /\ UNCHANGED <<config, chat_history, pairs_since_last_summary, chat_rows,
                   summary_rows, adds, memory, auth>>

SearchNext ==
    \E search_term \in SearchTerms, db \in {"ok", "select"} :
        SearchChatHistory(search_term, db)

SearchSpec == SearchInit /\ [][SearchNext]_vars

\* ================================================== AgenticMemorySystem
\* A memory is its metadata, as far as the methods read or write it:
\* memory_type, access_count, and archived ("unset" while the key is
\* missing).  Its id is its position in store: _generate_id hashes the
\* content and the time, ids are taken to be distinct.
MemoryTypes == {"working", "semantic", "episodic"}
Archived == {"unset", "true", "false"}
NewMemory(memory_type) ==
    [memory_type |-> memory_type, access_count |-> 0, archived |-> "unset"]

\* the updates maps of update_memory: no key that the model follows, or
\* one of them with a value
Updates ==
    {[key |-> "other", value |-> "unset"]}
    \cup {[key |-> "memory_type", value |-> t] : t \in MemoryTypes}
    \cup {[key |-> "access_count", value |-> n] : n \in 0..MaxAccess}
    \cup {[key |-> "archived", value |-> a] : a \in {"true", "false"}}

\* metadata.update(updates)
Updated(m, updates) ==
    CASE updates.key = "memory_type" -> [m EXCEPT !.memory_type = updates.value]
      [] updates.key = "access_count" -> [m EXCEPT !.access_count = updates.value]
      [] updates.key = "archived" -> [m EXCEPT !.archived = updates.value]
      [] OTHER -> m

\* update_memory on the collection st: the collection after it and the
\* value it returns.  db = "update" makes collection.update raise, which
\* the bare except turns into False.
UpdateOf(st, memory_id, updates, db) ==
    IF memory_id \notin DOMAIN st THEN [store |-> st, ok |-> FALSE]
    ELSE IF db = "update" THEN [store |-> st, ok |-> FALSE]
    ELSE [store |-> [st EXCEPT ![memory_id] = Updated(@, updates)],
          ok |-> TRUE]

\* _increment_access_count for the ids in ids
IncrementAccess(st, ids) ==
    [i \in DOMAIN st |->
        IF i \in ids THEN [st[i] EXCEPT !.access_count = @ + 1] ELSE st[i]]

\* collection.query(n_results=limit, where=...): the sets of ids it can
\* return, the limit nearest of the memories of the given types (which
\* they are depends on the embeddings); memory_types = {} is None or []
QueryResults(st, memory_types, limit) ==
    LET pool == {i \in DOMAIN st :
                    memory_types = {} \/ st[i].memory_type \in memory_types}
    IN  {ids \in SUBSET pool :
            Cardinality(ids) = Min(limit, Cardinality(pool))}

\* faulty WorkingIds: the get has no where clause
MutantWorkingIdsUnfiltered(st) == DOMAIN st

\* collection.get(where={"memory_type": "working"})
WorkingIds(st) == {i \in DOMAIN st : st[i].memory_type = "working"}

\* what reflection_model.generate_content and json.loads can give:
\* the call raises, the text is not JSON, it is JSON that is not a list
\* (a number or null: "scalar"; a non-empty object or string: "object";
\* an empty object or string iterates like the empty list), or a list.
\* An element of the list is a non-object, or an object with or without
\* the keys 'type' and 'content'.
InsightElems ==
    {[isdict |-> FALSE, type |-> "absent", content |-> FALSE],
     [isdict |-> TRUE, type |-> "absent", content |-> TRUE],
     [isdict |-> TRUE, type |-> "fact", content |-> TRUE],
     [isdict |-> TRUE, type |-> "fact", content |-> FALSE],
     [isdict |-> TRUE, type |-> "experience", content |-> TRUE],
     [isdict |-> TRUE, type |-> "pattern", content |-> FALSE]}
ReflectionResponses ==
    {[t |-> x, v |-> <<>>] : x \in {"raise", "notjson", "scalar", "object"}}
    \cup {[t |-> "list", v |-> l] :
            l \in UNION {[1..n -> InsightElems] : n \in 0..MaxInsights}}

\* malformed output of the model: text that is not JSON, JSON that is
\* not a list of objects, or objects without the keys they need
\* ('type', and 'content' for a fact or an experience)
Malformed(resp) ==
    \/ resp.t \in {"notjson", "scalar", "object"}
    \/ /\ resp.t = "list"
       /\ \E i \in DOMAIN resp.v :
            \/ ~resp.v[i].isdict
            \/ resp.v[i].type = "absent"
            \/ resp.v[i].type \in {"fact", "experience"} /\ ~resp.v[i].content

\* the 'type' values of the insights of a response, in order
InsightTypes(resp) == [i \in DOMAIN resp.v |-> resp.v[i].type]

\* _reflect_on_memories: the value it returns ("except" returns [])
Reflect(resp) ==
    IF resp.t \in {"raise", "notjson"} THEN [t |-> "list", v |-> <<>>]
    ELSE resp

\* the loop "for insight in insights" of consolidate_memories: the types
\* of the memories it creates, in order, and whether an exception ends it
\* (insight['type'] of a non-object or of an object without the key,
\* insight['content'] without the key, iteration of a non-iterable)
RECURSIVE CreateFrom(_)
CreateFrom(items) ==
    IF items = <<>> THEN [created |-> <<>>, raised |-> FALSE]
    ELSE LET insight == Head(items)
             rest == CreateFrom(Tail(items))
             Then(memory_type) ==
                [created |-> <<memory_type>> \o rest.created,
                 raised |-> rest.raised]
         IN  IF ~insight.isdict \/ insight.type = "absent"
             THEN [created |-> <<>>, raised |-> TRUE]
             ELSE IF insight.type = "fact"
             THEN IF insight.content THEN Then("semantic")
                  ELSE [created |-> <<>>, raised |-> TRUE]
             ELSE IF insight.type = "experience"
             THEN IF insight.content THEN Then("episodic")
                  ELSE [created |-> <<>>, raised |-> TRUE]
             ELSE rest
\* faulty Insights: an experience creates no memory
MutantInsightsFactsOnly(insights) ==
    IF insights.t \in {"scalar", "object"}
    THEN [created |-> <<>>, raised |-> TRUE]
    ELSE LET c == CreateFrom(insights.v)
         IN  [created |-> SelectSeq(c.created, LAMBDA t : t = "semantic"),
              raised |-> c.raised]

\* the loop over the value _reflect_on_memories returned
Insights(insights) ==
    IF insights.t \in {"scalar", "object"}
    THEN [created |-> <<>>, raised |-> TRUE]
    ELSE CreateFrom(insights.v)

\* the loop "for memory_id in working_memories['ids']": update_memory
\* with {'archived': True} for each of them
ArchiveAll(st, ids, db) ==
    [i \in DOMAIN st |->
        IF i \in ids THEN UpdateOf(st, i, [key |-> "archived", value |-> "true"],
                                   db).store[i]
        ELSE st[i]]

\* consolidate_memories: the collection after it, the result it returns
\* (consolidated, created), the calls of the model, and whether an
\* exception leaves it.  has_model: self.reflection_model is set.
Consolidate(st, has_model, resp, db) ==
    LET working == WorkingIds(st)
        asked == has_model /\ working # {}
        ins == IF asked THEN Insights(Reflect(resp))
               ELSE [created |-> <<>>, raised |-> FALSE]
        grown == st \o [i \in 1..Len(ins.created) |-> NewMemory(ins.created[i])]
        ids == [i \in 1..Len(ins.created) |-> Len(st) + i]
    IN  IF working = {}
        THEN [store |-> st, consolidated |-> 0, created |-> <<>>,
              calls |-> 0, raised |-> FALSE]
        ELSE IF ins.raised
        THEN [store |-> grown, consolidated |-> 0, created |-> ids,
              calls |-> 1, raised |-> TRUE]
        ELSE [store |-> ArchiveAll(grown, working, db),
              consolidated |-> Cardinality(working), created |-> ids,
              calls |-> IF asked THEN 1 ELSE 0, raised |-> FALSE]

MemoryInit ==
    /\ user_id = 1
    /\ session_id = "s1"
    /\ max_tokens = MaxTokens
    /\ chat_history = <<>>
    /\ pairs_since_last_summary = 0
    /\ chat_rows = <<>>
    /\ summary_rows = <<>>
    /\ last = NoCall
    /\ adds = 0
    /\ store = <<>>
    /\ reflection_model \in BOOLEAN
    /\ AuthStart

chat == <<config, chat_history, pairs_since_last_summary, chat_rows,
          summary_rows, adds>>

\* add_memory(content, memory_type, metadata); last.result is the id
AddMemory(memory_type) ==
    /\ Len(store) < MaxMemories
    /\ store' = Append(store, NewMemory(memory_type))
    /\ last' = [Call("add_memory", 0, "ok") EXCEPT !.result = Len(store) + 1]
    /\ UNCHANGED <<chat, auth, reflection_model>>

\* search_memories(query, memory_types, limit); last.result is the set of
\* the ids of the memories it returned
SearchMemories(memory_types, limit) ==
    /\ \E ids \in QueryResults(store, memory_types, limit) :
        /\ \A i \in ids : store[i].access_count < MaxAccess
        /\ store' = IncrementAccess(store, ids)
        /\ last' = [Call("search_memories", 0, "ok") EXCEPT !.result = ids]
    /\ UNCHANGED <<chat, auth, reflection_model>>

\* get_memory(memory_id); last.result is the id of the memory it
\* returned, 0 for None
GetMemory(memory_id) ==
    /\ last' = [Call("get_memory", 0, "ok") EXCEPT
                    !.result = IF memory_id \in DOMAIN store
                               THEN memory_id ELSE 0]
    /\ UNCHANGED <<chat, auth, memory>>

\* update_memory(memory_id, updates); last.result is 1 for True and 0
\* for False
UpdateMemory(memory_id, updates, db) ==
    LET u == UpdateOf(store, memory_id, updates, db)
    IN  /\ db = "update" => memory_id \in DOMAIN store
        /\ store' = u.store
        /\ last' = [Call("update_memory", 0, db) EXCEPT
                        !.result = IF u.ok THEN 1 ELSE 0]
        /\ UNCHANGED <<chat, auth, reflection_model>>

\* consolidate_memories(); last.result is the dict it returned,
\* last.compact what the reflection gave ("na" without a call, "bad" for
\* malformed output), last.pair the types of the insights of a well-formed
\* list
ConsolidateMemories(db) ==
    LET asked == Consolidate(store, reflection_model, NoResp, db).calls = 1
    IN  /\ db = "update" => WorkingIds(store) # {}
        /\ \E resp \in (IF asked THEN ReflectionResponses ELSE {NoResp}) :
            LET c == Consolidate(store, reflection_model, resp, db)
            IN  /\ Len(c.store) <= MaxStore
                /\ store' = c.store
                /\ last' = [Call("consolidate", 0, db) EXCEPT
                                !.raised = c.raised,
                                !.calls = c.calls,
                                !.compact = IF Malformed(resp) THEN "bad"
                                            ELSE resp.t,
                                !.pair = IF Malformed(resp) THEN <<>>
                                         ELSE InsightTypes(resp),
                                !.result = [consolidated |-> c.consolidated,
                                            created |-> c.created]]
        /\ UNCHANGED <<chat, auth, reflection_model>>

MemoryNext ==
    \/ \E memory_type \in MemoryTypes : AddMemory(memory_type)
    \/ \E memory_types \in {{}} \cup {{t} : t \in MemoryTypes},
          limit \in 1..MaxResults : SearchMemories(memory_types, limit)
    \/ \E memory_id \in 1..MaxMemories : GetMemory(memory_id)
    \/ \E memory_id \in 1..MaxMemories, updates \in Updates,
          db \in {"ok", "update"} : UpdateMemory(memory_id, updates, db)
    \/ \E db \in {"ok", "update"} : ConsolidateMemories(db)

MemorySpec == MemoryInit /\ [][MemoryNext]_vars

\* ======================================== AuthManager and UserManager
\* One page (one st.session_state) over the table user_info.  A token of
\* secrets.token_urlsafe(32) is modelled by its number in the order of
\* generation: the tokens are taken to be distinct.  Time is counted in
\* hours.

\* faulty ValidateOf: the SELECT does not compare session_expires
MutantValidateIgnoresExpiry(db, t, session_token) ==
    IF session_token = NoToken THEN NoUser
    ELSE LET rows == {u \in AuthUsers : db[u].token = session_token}
         IN  IF rows = {} THEN NoUser ELSE CHOOSE u \in rows : TRUE

\* validate_session: the id of the user whose stored session_token is the
\* given one and whose session_expires is later than now; None (NoUser)
\* for an empty token and when no row matches (a NULL never matches)
ValidateOf(db, t, session_token) ==
    IF session_token = NoToken THEN NoUser
    ELSE LET rows == {u \in AuthUsers :
                        /\ db[u].token = session_token
                        /\ db[u].expires # NoExpiry
                        /\ db[u].expires > t}
         IN  IF rows = {} THEN NoUser ELSE CHOOSE u \in rows : TRUE

\* refresh_session, _create_oauth_user and _update_user_session: a new
\* token, expiring 24 hours from now, is stored for the user
NewSession(db, t, n, uid) ==
    [db EXCEPT ![uid] = [token |-> n + 1, expires |-> t + SessionHours]]

\* clear_session: both columns are set to NULL
ClearOf(db, uid) == [db EXCEPT ![uid] = NoSession]

\* _refresh_session of the page: when its token validates, the user's
\* session is refreshed and the page takes the new token
RefreshOf(ss, db, t, n) ==
    LET uid == ValidateOf(db, t, ss.session_token)
    IN  IF ss.session_token # NoToken /\ uid # NoUser
        THEN [ss |-> [ss EXCEPT !.session_token = n + 1, !.last_activity = t],
              db |-> NewSession(db, t, n, uid), n |-> n + 1,
              old |-> {db[uid].token}]
        ELSE [ss |-> ss, db |-> db, n |-> n, old |-> {}]

\* _update_activity: last_activity is set to now, and then compared with
\* now
UpdateActivity(ss, db, t, n) ==
    LET ss1 == [ss EXCEPT !.last_activity = t]
    IN  IF ss1.last_activity # NoActivity
           /\ (t - ss1.last_activity) > RefreshAfter
        THEN RefreshOf(ss1, db, t, n)
        ELSE [ss |-> ss1, db |-> db, n |-> n, old |-> {}]

\* is_authenticated: the page state and the table after it, and what it
\* returns
Authenticated(ss, db, t, n) ==
    IF ss.session_token # NoToken
    THEN IF ValidateOf(db, t, ss.session_token) # NoUser
         THEN LET u == UpdateActivity(ss, db, t, n)
              IN  [ss |-> u.ss, db |-> u.db, n |-> u.n, old |-> u.old,
                   ret |-> TRUE]
         ELSE [ss |-> NoSessionState, db |-> db, n |-> n, old |-> {},
               ret |-> FALSE]
    ELSE [ss |-> ss, db |-> db, n |-> n, old |-> {},
          ret |-> ss.authenticated /\ ss.user_info]

AuthInit ==
    /\ user_id = 1
    /\ session_id = "s1"
    /\ max_tokens = MaxTokens
    /\ chat_history = <<>>
    /\ pairs_since_last_summary = 0
    /\ chat_rows = <<>>
    /\ summary_rows = <<>>
    /\ last = NoCall
    /\ adds = 0
    /\ store = <<>>
    /\ reflection_model = FALSE
    /\ AuthStart

rest == <<chat, memory>>

\* handle_oauth_callback for the Google account of user uid, all requests
\* succeeding: find_or_create_oauth_user stores a new session for the
\* user and the page takes its token
HandleOauthCallback(uid) ==
    /\ issued < MaxIssued
    /\ sessions' = NewSession(sessions, now, issued, uid)
    /\ issued' = issued + 1
    /\ session_state' = [session_token |-> issued + 1, last_activity |-> now,
                         authenticated |-> TRUE, user_info |-> TRUE]
    /\ last' = [Call("handle_oauth_callback", 0, "ok") EXCEPT !.result = uid]
    /\ UNCHANGED <<rest, now, revoked>>

\* is_authenticated(); last.pair is the token the page held, last.result
\* the user the token stood for, last.compact what the call returned
IsAuthenticated ==
    LET a == Authenticated(session_state, sessions, now, issued)
    IN  /\ a.n <= MaxIssued
        /\ session_state' = a.ss
        /\ sessions' = a.db
        /\ issued' = a.n
        /\ revoked' = revoked \cup (a.old \ {NoToken})
        /\ last' = [Call("is_authenticated", 0, "ok") EXCEPT
                        !.pair = <<session_state.session_token>>,
                        !.result = ValidateOf(sessions, now,
                                              session_state.session_token),
                        !.compact = a.ret]
        /\ UNCHANGED <<rest, now>>

\* logout()
Logout ==
    LET uid == ValidateOf(sessions, now, session_state.session_token)
        clears == session_state.session_token # NoToken /\ uid # NoUser
    IN  /\ sessions' = IF clears THEN ClearOf(sessions, uid) ELSE sessions
        /\ revoked' = IF clears
                      THEN revoked \cup {session_state.session_token}
                      ELSE revoked
        /\ session_state' = NoSessionState
        /\ last' = [Call("logout", 0, "ok") EXCEPT !.result = uid]
        /\ UNCHANGED <<rest, now, issued>>

\* UserManager.validate_session(session_token), called directly;
\* last.pair is the token, last.result the id it returned
ValidateSession(session_token) ==
    /\ last' = [Call("validate_session", 0, "ok") EXCEPT
                    !.pair = <<session_token>>,
                    !.result = ValidateOf(sessions, now, session_token)]
    /\ UNCHANGED <<rest, auth>>

\* UserManager.refresh_session(user_id), called directly (another page of
\* the user); last.result is the token it returned
RefreshSession(uid) ==
    /\ issued < MaxIssued
    /\ sessions' = NewSession(sessions, now, issued, uid)
    /\ issued' = issued + 1
    /\ revoked' = revoked \cup ({sessions[uid].token} \ {NoToken})
    /\ last' = [Call("refresh_session", 0, "ok") EXCEPT !.result = issued + 1]
    /\ UNCHANGED <<rest, now, session_state>>

\* UserManager.clear_session(user_id), called directly
ClearSession(uid) ==
    /\ sessions' = ClearOf(sessions, uid)
    /\ revoked' = revoked \cup ({sessions[uid].token} \ {NoToken})
    /\ last' = [Call("clear_session", 0, "ok") EXCEPT !.result = uid]
    /\ UNCHANGED <<rest, now, issued, session_state>>

\* time passes
Tick(hours) ==
    /\ now + hours <= MaxClock
    /\ now' = now + hours
    /\ last' = Call("tick", 0, "ok")
    /\ UNCHANGED <<rest, sessions, issued, session_state, revoked>>

AuthNext ==
    \/ \E uid \in AuthUsers : HandleOauthCallback(uid)
    \/ IsAuthenticated
    \/ Logout
    \/ \E session_token \in 0..MaxIssued : ValidateSession(session_token)
    \/ \E uid \in AuthUsers : RefreshSession(uid)
    \/ \E uid \in AuthUsers : ClearSession(uid)
    \/ \E hours \in {6, 13} : Tick(hours)

AuthSpec == AuthInit /\ [][AuthNext]_vars

\* ================================================================ claims
LastN(s, n) == SubSeq(s, Len(s) - n + 1, Len(s))
IsPrefix(s, t) == Len(s) <= Len(t) /\ SubSeq(t, 1, Len(s)) = s
PairTurns(p) == <<UserTurn(p[1]), AssistantTurn(p[2])>>
\* an entry written by the model: a dict with both keys
Summarized(e) == e.user # Absent /\ e.assistant # Absent

\* C1 (as claimed): bounded window. In a sequence of add_to_history calls
\* with the same max_history_pairs = k >= 0 on one manager the window
\* never exceeds 2k: it is empty at first, and a call that finds it within
\* 2k and returns leaves it within 2k.
C1_BoundedWindow ==
    [][(last'.op = "add" /\ ~last'.raised
            /\ Len(chat_history) <= 2 * last'.k)
        => Len(chat_history') <= 2 * last'.k]_vars

\* C2: compaction preserves recency. When summarize_chat_history(k)
\* assigns chat_history, the last min(2k, previous length) entries are the
\* entries that were last before, in order, and what stands before them is
\* summarized content only.
C2_PreservesRecency ==
    [][(last'.op = "summarize"
        /\ ("replace" \in last'.did \/ chat_history' # chat_history))
        => LET n == Min(2 * last'.k, Len(chat_history))
           IN  /\ Len(chat_history') >= n
               /\ LastN(chat_history', n) = LastN(chat_history, n)
               /\ \A i \in 1..(Len(chat_history') - n) :
                     Summarized(chat_history'[i])]_vars

\* C2, witness: a compaction has replaced older turns and kept 2k >= 2
\* recent ones behind the summarized content
C2_Witness ==
    /\ last.op = "summarize"
    /\ "replace" \in last.did
    /\ last.k >= 1
    /\ Len(chat_history) > 2 * last.k
    /\ Summarized(chat_history[1])
    /\ ~Summarized(chat_history[Len(chat_history)])

\* the outcomes of the model call that C3 names: an exception, a text that
\* is not JSON (or no text), JSON that is neither an object nor a list of
\* objects, an object that lacks 'user' or 'assistant'
Rejected(resp) ==
    \/ resp.t \in {"raise", "none", "notjson", "scalar"}
    \/ /\ resp.t \in {"dict", "list"}
       /\ \E i \in DOMAIN resp.v :
            \/ ~resp.v[i].isdict
            \/ resp.v[i].user = Absent
            \/ resp.v[i].assistant = Absent

\* C3: compaction is best-effort. In every state, for every k and every
\* such outcome of the model call, summarize_chat_history(k) leaves
\* chat_history as it was and no exception leaves it; and a call of it that
\* did not assign chat_history changed nothing and raised nothing.
C3_BestEffort ==
    /\ \A k \in Ks, resp \in CompactResponses :
         Rejected(resp) =>
            LET s == Summarize(chat_history, k, resp)
            IN  s.hist = chat_history /\ ~s.raised /\ ~s.replaced
    /\ (last.op = "summarize" /\ "replace" \notin last.did) => ~last.raised

\* C3, witness: summarize_chat_history called the model for older turns,
\* the response was rejected and the window of more than 2k turns is kept
C3_Witness ==
    /\ last.op = "summarize"
    /\ last.calls = 1
    /\ last.did = {}
    /\ ~last.raised
    /\ Len(chat_history) > 2 * last.k

\* C4: no-op guard. update_chat_summary(k) called with
\* pairs_since_last_summary < k inserts no Summary, does not call the
\* model and leaves the counter.
C4_NoOpGuard ==
    [][(last'.op = "update" /\ pairs_since_last_summary < last'.k)
        => /\ summary_rows' = summary_rows
           /\ pairs_since_last_summary' = pairs_since_last_summary
           /\ last'.calls = 0
           /\ ~last'.raised]_vars

\* C4, witness: update_chat_summary(k) returned at the guard although the
\* session holds more than k pairs
C4_Witness ==
    /\ last.op = "update"
    /\ pairs_since_last_summary < last.k
    /\ Cardinality(SessionRows(chat_rows, session_id)) > last.k
    /\ last.calls = 0

\* a Summary of the live session was appended in this step
SummaryAppended ==
    /\ Len(summary_rows') = Len(summary_rows) + 1
    /\ IsPrefix(summary_rows, summary_rows')
    /\ summary_rows'[Len(summary_rows')].session_id = session_id

\* C5 (as claimed): the write and the reset are coupled. A call of
\* update_chat_summary resets pairs_since_last_summary only if it appended
\* a Summary of the session, and a summary text that was generated is
\* appended, for every user_id.
C5_ResetOnlyWithSummary ==
    [][(last'.op = "update" /\ ~last'.raised)
        => /\ ("reset" \in last'.did
                \/ (pairs_since_last_summary # 0
                    /\ pairs_since_last_summary' = 0))
              => SummaryAppended
           /\ (last'.calls = 1 /\ ~last'.failed) => SummaryAppended]_vars

\* C6: a failed summary is retried. When the model gives
\* update_chat_summary(k) no text, no Summary is appended and the counter
\* keeps its value; and when add_to_history(.., k) follows that call, the
\* update_chat_summary(k) after it calls the model again.
C6_FailureIsRetried ==
    [][/\ (last'.op = "update" /\ last'.failed)
            => /\ summary_rows' = summary_rows
               /\ pairs_since_last_summary' = pairs_since_last_summary
               /\ ~last'.raised
       /\ (last.op = "add" /\ last.failed
            /\ last'.op = "update" /\ last'.k = last.k)
            => last'.calls = 1]_vars

\* C6, witness: the model gave update_chat_summary(k) no text, the counter
\* kept its value, and add_to_history(.., k) has followed
C6_Witness ==
    /\ last.op = "add"
    /\ last.failed
    /\ pairs_since_last_summary > last.k
    /\ summary_rows = <<>>

\* the (question, answer) pairs persisted for session sid, oldest first
SessionPairs(sid) ==
    LET InSession(r) == r.session_id = sid
        rows == SelectSeq(chat_rows, InSession)
    IN  [i \in 1..Len(rows) |-> <<rows[i].question, rows[i].answer>>]

\* C7 (as claimed): get_latest_chat_pairs(num_pairs) returns at most
\* num_pairs pairs, the num_pairs most recently persisted of the session,
\* oldest first.
C7_LatestPairs ==
    /\ \A n \in Ks : \A r \in LatestChatPairs(session_id, n) :
         LET all == SessionPairs(session_id)
         IN  /\ Len(r) <= n
             /\ r = LastN(all, Min(n, Len(all)))
    /\ last.op = "get_pairs" => last.result <= last.k

\* the record that add_to_history persists for its pair
RowOfPair(r, p) ==
    /\ r.user_id = user_id
    /\ r.session_id = session_id
    /\ r.question = p[1]
    /\ r.answer = p[2]

PairAppended ==
    /\ Len(chat_rows') = Len(chat_rows) + 1
    /\ IsPrefix(chat_rows, chat_rows')
    /\ RowOfPair(chat_rows'[Len(chat_rows')], last'.pair)

C9_InsertFailureContained ==
    (last.op = "add" /\ last.db = "insert")
        => /\ ~last.raised
           /\ last.k >= 1 => LastN(chat_history, 2) = PairTurns(last.pair)

\* get_latest_chat_pairs(n) on a session of at most LIMIT = 2n records returns
\* every pair of the session
AllRetrieved ==
    \A n \in Ks :
        Cardinality(SessionRows(chat_rows, session_id)) <= FetchLimit(n)
        => \A r \in LatestChatPairs(session_id, n) :
             \A i \in SessionRows(chat_rows, session_id) :
                \E j \in DOMAIN r :
                    r[j] = <<chat_rows[i].question, chat_rows[i].answer>>

\* add_to_history(.., k) on a window of at most 2k entries appends the two
\* turns and evicts the oldest entries beyond 2k
FifoStep ==
    LET h == chat_history \o PairTurns(last'.pair)
    IN  chat_history' = LastN(h, Min(2 * last'.k, Len(h)))

SearchFound == last.op = "search" /\ last.db = "ok" /\ last.result.chars > 0

\* C11 (as claimed): search size-based branching. A non-empty result set
\* that serializes to L characters is returned raw, without a call of the
\* model, when L <= max_characters, and as a summary string of the model
\* when L > max_characters, with the status of success in both cases.
C11_SizeBranching ==
    SearchFound =>
        /\ last.result.status = Successful
        /\ last.result.chars <= MaxCharacters
            => (last.result.kind = "rows" /\ last.calls = 0)
        /\ last.result.chars > MaxCharacters
            => (last.result.kind = "text" /\ last.calls = 1)

\* C11 (amended): as C11 for L <= max_characters; for L > max_characters
\* the model is called once, and the call returns the status of success
\* with response.text (a summary, an empty string or None) when the model
\* returns, and the status of failure with a message when it raises.
C11_SizeBranchingWhenModelReturns ==
    SearchFound =>
        /\ last.result.chars <= MaxCharacters
            => /\ last.result.status = Successful
               /\ last.result.kind = "rows"
               /\ last.result.rows \in SearchRows(last.pair)
               /\ last.calls = 0
        /\ last.result.chars > MaxCharacters
            => /\ last.calls = 1
               /\ last.result.model # "raise"
                    => /\ last.result.status = Successful
                       /\ last.result.kind =
                            (CASE last.result.model = "none" -> "none"
                               [] last.result.model = "empty" -> "empty"
                               [] OTHER -> "text")
               /\ last.result.model = "raise"
                    => /\ last.result.status = Failed
                       /\ last.result.kind = "message"

\* C11, witness: a result set of max_characters + 1 characters came back
\* as the summary of the model
C11_Witness ==
    /\ SearchFound
    /\ last.result.chars = MaxCharacters + 1
    /\ last.result.kind = "text"
    /\ last.result.status = Successful

\* C12: search_chat_history never raises. It returns the status of failure
\* and a message when no record matches, when the query raises and when
\* the model raises, and the status of success only when the query gave a
\* non-empty result set.
C12_SearchNeverRaises ==
    last.op = "search" =>
        /\ ~last.raised
        /\ last.result.status \in {Successful, Failed}
        /\ (last.db = "select" \/ SearchRows(last.pair) = {<<>>}
             \/ (last.calls = 1 /\ last.result.model = "raise"))
            => (last.result.status = Failed /\ last.result.kind = "message")
        /\ last.result.status = Successful
            => (last.db = "ok" /\ <<>> \notin SearchRows(last.pair))

\* C12, witness: the model raised in a search and the call returned the
\* status of failure
C12_Witness ==
    /\ last.op = "search"
    /\ last.calls = 1
    /\ last.result.model = "raise"
    /\ last.result.status = Failed
    /\ ~last.raised

\* term occurs in text as a substring
Contains(text, term) ==
    \E i \in 0..(Len(text) - Len(term)) :
        SubSeq(text, i + 1, i + Len(term)) = term

\* term is a case-insensitive substring of text
ContainsIgnoringCase(text, term) ==
    Contains(PyLowerText(text), PyLowerText(term))

\* C13 (as claimed): a search matches a record exactly when the term is a
\* case-insensitive substring of its question or of its answer, and the
\* raw result is the at most 3 matching records of the smallest
\* timestamps, in ascending order of timestamp.
C13_SubstringMatch ==
    (last.op = "search" /\ last.db = "ok") =>
        LET term == last.pair
            Claimed == {i \in DOMAIN chat_rows :
                          \/ ContainsIgnoringCase(chat_rows[i].question, term)
                          \/ ContainsIgnoringCase(chat_rows[i].answer, term)}
        IN  /\ \A i \in DOMAIN chat_rows :
                 SearchMatches(chat_rows[i], term) <=> i \in Claimed
            /\ \A results \in SearchRows(term) :
                 /\ Len(results) = Min(SearchLimit, Cardinality(Claimed))
                 /\ \A j \in 1..(Len(results) - 1) :
                      results[j][3] <= results[j + 1][3]
            /\ last.result.kind = "rows"
                 => \A j \in DOMAIN last.result.rows :
                      \/ ContainsIgnoringCase(last.result.rows[j][1], term)
                      \/ ContainsIgnoringCase(last.result.rows[j][2], term)

\* -------------------------------------------- AgenticMemorySystem, claims
\* the memories of the collection that are tagged 'working'
Tagged(st) == {i \in DOMAIN st : st[i].memory_type = "working"}

\* C14: consolidation safety. consolidate_memories() on a store without a
\* memory tagged 'working' returns {consolidated: 0, created: []}, does
\* not call the reflection model and writes nothing to the store.
C14_ConsolidationSafety ==
    [][(last'.op = "consolidate" /\ Tagged(store) = {})
        => /\ last'.result = [consolidated |-> 0, created |-> <<>>]
           /\ last'.calls = 0
           /\ ~last'.raised
           /\ store' = store]_vars

\* C14, witness: consolidate_memories() was called, with a reflection
\* model, on a store that holds memories but none tagged 'working'
C14_Witness ==
    /\ last.op = "consolidate"
    /\ reflection_model
    /\ Len(store) = MaxMemories
    /\ Tagged(store) = {}
    /\ last.result.consolidated = 0

\* C15 (as claimed): archival regardless of reflection. Whatever the
\* reflection step gives, after consolidate_memories() every memory that
\* was tagged 'working' is still there and has archived = true, and the
\* count returned is the number of those memories.
C15_ArchivalRegardless ==
    [][(last'.op = "consolidate" /\ last'.db = "ok")
        => /\ ~last'.raised
           /\ \A i \in Tagged(store) :
                /\ i \in DOMAIN store'
                /\ store'[i].memory_type = "working"
                /\ store'[i].archived = "true"
           /\ last'.result.consolidated = Cardinality(Tagged(store))]_vars

\* C16 (as claimed): consolidation degrades gracefully. When the output
\* of the reflection model is malformed, consolidate_memories() does not
\* raise and creates no memory.
C16_MalformedOutputContained ==
    [][(last'.op = "consolidate" /\ last'.compact \in {"notjson", "bad"})
        => /\ ~last'.raised
           /\ Len(store') = Len(store)
           /\ last'.result.created = <<>>]_vars

\* C17 (as claimed): access-count monotonicity. A search_memories call
\* adds exactly 1 to the access_count of every memory it returns and
\* leaves the others; get_memory and update_memory never change an
\* access_count.
C17_AccessCount ==
    [][/\ last'.op = "search_memories"
            => \A i \in DOMAIN store :
                 store'[i].access_count =
                    store[i].access_count + (IF i \in last'.result THEN 1 ELSE 0)
       /\ last'.op \in {"get_memory", "update_memory"}
            => /\ DOMAIN store' = DOMAIN store
               /\ \A i \in DOMAIN store :
                    store'[i].access_count = store[i].access_count]_vars

\* C18 (as claimed): memory lifecycle. No call deletes a memory or changes
\* its memory_type, and archived only goes from unset to true, on memories
\* tagged 'working' only.
C18_Lifecycle ==
    [][\A i \in DOMAIN store :
        /\ i \in DOMAIN store'
        /\ store'[i].memory_type = store[i].memory_type
        /\ store'[i].archived # store[i].archived
            => /\ store[i].archived = "unset"
               /\ store'[i].archived = "true"
               /\ store[i].memory_type = "working"]_vars

IsUserTurn(e) == e.user # Absent /\ e.assistant = Absent
IsAssistantTurn(e) == e.user = Absent /\ e.assistant # Absent

\* the entries of h from position n + 1 on are complete pairs: an even
\* number of single turns, a user turn followed by an assistant turn
PairsFrom(h, n) ==
    /\ (Len(h) - n) % 2 = 0
    /\ \A i \in (n + 1)..Len(h) :
         IF (i - n) % 2 = 1 THEN IsUserTurn(h[i]) ELSE IsAssistantTurn(h[i])

\* C20 (as claimed): complete pairs. After every add_to_history and
\* summarize_chat_history call chat_history has even length and its
\* entries alternate a user turn and an assistant turn.
C20_CompletePairs ==
    last.op \in {"add", "summarize"} => PairsFrom(chat_history, 0)

\* C20 (amended): chat_history is always zero or more summarized entries
\* (one dict with both keys, written by the model) followed by complete
\* pairs of single turns.
C20_SummariesThenCompletePairs ==
    \E n \in 0..Len(chat_history) :
        /\ \A i \in 1..n : Summarized(chat_history[i])
        /\ PairsFrom(chat_history, n)

\* a successful compaction has left one summarized entry before one pair:
\* an odd number of entries
C20_Witness ==
    /\ last.op = "summarize"
    /\ "replace" \in last.did
    /\ Len(chat_history) = 3
    /\ Summarized(chat_history[1])
    /\ PairsFrom(chat_history, 1)

\* the memories that well-formed insights of the given types stand for:
\* 'semantic' for a fact, 'episodic' for an experience, none otherwise
Materialized(types) ==
    LET kept == SelectSeq(types, LAMBDA t : t \in {"fact", "experience"})
    IN  [i \in DOMAIN kept |->
            IF kept[i] = "fact" THEN "semantic" ELSE "episodic"]

\* C21: insight materialization. When the reflection returns a list of
\* well-formed insights, consolidate_memories returns, adds exactly one
\* new memory per fact (tagged 'semantic') and per experience (tagged
\* 'episodic'), in the order of the insights, and none for any other type;
\* 'created' holds exactly the ids of the new memories.
C21_InsightMaterialization ==
    [][(last'.op = "consolidate" /\ last'.compact = "list")
        => LET expected == Materialized(last'.pair)
           IN  /\ ~last'.raised
               /\ Len(store') = Len(store) + Len(expected)
               /\ \A i \in DOMAIN expected :
                    store'[Len(store) + i] = NewMemory(expected[i])
               /\ last'.result.created
                    = [i \in DOMAIN expected |-> Len(store) + i]]_vars

\* a reflection that returned a fact and an experience created a
\* semantic and an episodic memory
C21_Witness ==
    /\ last.op = "consolidate"
    /\ last.pair = <<"fact", "experience">>
    /\ Len(last.result.created) = 2
    /\ store[last.result.created[1]].memory_type = "semantic"
    /\ store[last.result.created[2]].memory_type = "episodic"

\* C22 (as claimed): add_to_history under persistence failure. When the
\* pair is not persisted (no user_id, or the INSERT failed) the remaining
\* steps still run on the in-memory window: the counter is incremented,
\* the tokens are counted, and summarize_chat_history is invoked exactly
\* when the count exceeds max_tokens.
C22_FailureDoesNotStopTheCall ==
    [][(last'.op = "add" /\ "insert" \notin last'.did)
        => /\ pairs_since_last_summary' = pairs_since_last_summary + 1
           /\ last'.compact = OverBudget(chat_history', max_tokens)]_vars

\* C23 (as claimed): size bound of summarized search results. Whenever
\* search_chat_history takes the summary branch (the result is longer than
\* max_characters and the model returns a text) the text it returns has at
\* most max_characters characters.
C23_SummaryWithinBound ==
    (last.op = "search" /\ last.result.kind = "text")
        => /\ last.result.chars > MaxCharacters
           /\ last.result.len <= MaxCharacters

\* ------------------------------------------------------- cadence, claims
\* the Summary records that a session of t turns with max_history_pairs
\* = k holds by the claim: none up to turn k, the first on turn k + 1,
\* then one every k turns
SummariesDue(t, k) == IF t <= k THEN 0 ELSE 1 + ((t - k - 1) \div k)

C25_CompactionInAddIsNoOp ==
    [][last'.op = "add"
        => LET h1 == chat_history \o PairTurns(last'.pair)
           IN  /\ last'.calls = 0
               /\ "replace" \notin last'.did
               /\ Len(chat_history') <= Len(h1)
               /\ chat_history' = LastN(h1, Len(chat_history'))]_vars

\* an add_to_history with k = 1 found the window over max_tokens, invoked
\* summarize_chat_history, and the model was not called
C25_Witness ==
    /\ last.op = "add"
    /\ last.k = 1
    /\ last.compact
    /\ OverBudget(chat_history, max_tokens)
    /\ last.calls = 0

\* -------------------------------------- AgenticMemorySystem, more claims
\* C26 (as claimed): each working memory is consolidated at most once. A
\* consolidate_memories call that follows one which returned and archived
\* the working memories, with no call in between, returns consolidated = 0,
\* creates no memory and does not call the reflection.
C26_ConsolidatedOnce ==
    [][(/\ last.op = "consolidate" /\ ~last.raised /\ last.db = "ok"
        /\ last'.op = "consolidate")
        => /\ last'.result.consolidated = 0
           /\ last'.result.created = <<>>
           /\ last'.calls = 0
           /\ Len(store') = Len(store)]_vars

\* ------------------------------------- ChatHistoryManager, more claims
\* C27: an empty summary is accepted as success. When the model called by
\* summarize_chat_history(k) returns the JSON list [] (it is called only
\* when there are entries before the last 2k, k >= 1), chat_history
\* becomes exactly its last 2k entries: the older entries are dropped and
\* nothing stands in for them.
C27_EmptySummaryAccepted ==
    [][(last'.op = "summarize" /\ last'.resp = "empty")
        => /\ last'.calls = 1
           /\ last'.k >= 1
           /\ Len(chat_history) > 2 * last'.k
           /\ "replace" \in last'.did
           /\ ~last'.raised
           /\ chat_history' = LastN(chat_history, 2 * last'.k)]_vars

\* summarize_chat_history(1) on a window of two pairs got [] from the
\* model and left the newer pair alone
C27_Witness ==
    /\ last.op = "summarize"
    /\ last.resp = "empty"
    /\ last.k = 1
    /\ "replace" \in last.did
    /\ Len(chat_history) = 2

\* C28: session isolation of durable reads. An add_to_history or
\* update_chat_summary call of the manager of one session changes nothing
\* in what get_latest_chat_pairs(n), for any n, and get_latest_summary()
\* return for another session.
C28_SessionIsolation ==
    [][last'.op \in {"add", "update"}
        => \A sid \in SessionIds \ {session_id} :
            /\ LatestSummary(sid)' = LatestSummary(sid)
            /\ \A n \in Ks :
                LatestChatPairs(sid, n)' = LatestChatPairs(sid, n)]_vars

\* the manager of session s2 has stored a pair while session s1 holds
\* pairs and a summary
C28_Witness ==
    /\ last.op = "add"
    /\ "insert" \in last.did
    /\ session_id = "s2"
    /\ SessionRows(chat_rows, "s1") # {}
    /\ SessionRows(chat_rows, "s2") # {}
    /\ SessionRows(summary_rows, "s1") # {}

\* ------------------------------------------------ login sessions, claims
\* C29 (as claimed): login-session refresh. When is_authenticated()
\* validates the token of the page and more than 12 hours have passed
\* since the last_activity recorded before, the session is refreshed: the
\* page holds a new token and the user's session expires 24 hours from
\* now.
C29_RefreshAfterTwelveHours ==
    [][(/\ last'.op = "is_authenticated"
        /\ last'.result # NoUser
        /\ session_state.last_activity # NoActivity
        /\ now - session_state.last_activity > RefreshAfter)
        => /\ session_state'.session_token # session_state.session_token
           /\ sessions'[last'.result].token = session_state'.session_token
           /\ sessions'[last'.result].expires = now + SessionHours]_vars

\* C30: session-token validity. validate_session(token) returns a user id
\* only when the token is not empty, is the session_token stored for that
\* user, and the stored session_expires is later than now. A token that
\* clear_session or refresh_session replaced never validates again, and
\* is_authenticated() of a page that holds such a token returns false and
\* leaves the page unauthenticated, without token.
C30_TokenValidity ==
    [][/\ (last'.op = "validate_session" /\ last'.result # NoUser)
            => /\ last'.pair[1] # NoToken
               /\ sessions[last'.result].token = last'.pair[1]
               /\ sessions[last'.result].expires > now
       /\ (last'.op = "validate_session" /\ last'.pair[1] \in revoked)
            => last'.result = NoUser
       /\ (last'.op = "is_authenticated"
            /\ session_state.session_token \in revoked)
            => /\ last'.result = NoUser
               /\ ~last'.compact
               /\ ~session_state'.authenticated
               /\ session_state'.session_token = NoToken]_vars

\* the page held a token that refresh_session or clear_session had
\* replaced, and is_authenticated() returned false
C30_Witness ==
    /\ last.op = "is_authenticated"
    /\ last.pair[1] # NoToken
    /\ last.pair[1] \in revoked
    /\ ~last.compact
    /\ session_state = NoSessionState

====
